---- MODULE Spec2Model ----
(***************************************************************************)
(* Slot booking of the Doctor Appointment System.                          *)
(*                                                                         *)
(* The repository holds four servers, each a program of its own with its   *)
(* own database:                                                           *)
(*   "part_000"  src/unnamed/part_000 (express server, lines 400-809)      *)
(*   "server_js" src/server.js lines 1-242                                 *)
(*   "backend"   src/Doctor Appointment System/backend/database.sql        *)
(*               (schema and procedure 1-134, express server 135-393)      *)
(*   "simple"    src/server.js lines 244-285 (stub without a database)     *)
(* The variable deployment says which one runs; it never changes.          *)
(*                                                                         *)
(* The database is MySQL/InnoDB: slots and bookings hold the COMMITTED     *)
(* rows; a transaction's own writes live in tx[p] until COMMIT applies     *)
(* them or ROLLBACK drops them; lock[s] is the holder of the exclusive     *)
(* row lock of slot s (0: free).  A write to a slot row is made only by    *)
(* the holder of its lock, so applying the write at COMMIT is the same as  *)
(* InnoDB's in-place write with undo.                                      *)
(*                                                                         *)
(* Every request is served by one process p of Procs; an action is one     *)
(* stretch of a handler between two awaits.                                *)
(***************************************************************************)
EXTENDS Integers, Sequences, FiniteSets, TLC

\* ------------------------------------------------------------- bounds
NumProcs == 3
MaxSeats == 2
MaxNow == 1
MaxHolds == 2
MaxCalls == 11

Procs == 1..NumProcs

\* ------------------------------------------------------------- constants
\* expiresAt = Date.now() + 2 * 60 * 1000, in minutes
HoldMinutes == 2

Deployments == {"part_000", "server_js", "backend", "simple"}

\* connectionLimit: 10 of mysql.createPool
connectionLimit == 10

\* slots0 is the slots table as it was at start-up; it never changes.
\* pool counts the connections of the pool by what their handlers do; it is
\* used where the calls are too many to follow one by one (see "the pool").
VARIABLES deployment, slots0, now, slots, bookings, auto_increment, lock,
          pc, req, tx, res, pool

vars == <<deployment, slots0, now, slots, bookings, auto_increment, lock,
          pc, req, tx, res, pool>>

\* ------------------------------------------------------------- schema
\* The sample rows each server inserts into slots at start-up, as
\* <<max_patients, available_seats>>.  server.js and part_000 name no
\* max_patients column, so the column default 1 applies.
SampleRows(d) ==
    CASE d = "server_js" -> << <<1, 1>>, <<1, 2>>, <<1, 1>> >>
      [] d = "part_000"  -> << <<1, 1>>, <<1, 2>>, <<1, 1>>, <<1, 1>>, <<1, 1>> >>
      [] d = "backend"   -> << <<1, 1>>, <<1, 1>>, <<2, 2>>, <<1, 1>>, <<1, 1>> >>
      [] OTHER           -> << >>

Row(r) == [max_patients |-> r[1], available_seats |-> r[2]]

\* The slots table after start-up; a row's id is its index (AUTO_INCREMENT).
initializeDatabase(d) ==
    [i \in 1..Len(SampleRows(d)) |-> Row(SampleRows(d)[i])]

\* ------------------------------------------------------------- requests
\* slot_id 0 stands for a missing (falsy) slot_id, UnknownSlotId for the id
\* of no row; patient_name "" for a missing or empty name.
UnknownSlotId == 9
SeatsInputs == (-1)..MaxSeats

\* The slot most requests name, and another one.  Sample row 3 has one seat
\* and max_patients 1 in server.js and part_000, two of each in database.sql;
\* sample row 2 has two seats for max_patients 1 in server.js and part_000.
MainSlot == 3
OtherSlot == 2

\* The request bodies tried, as <<slot_id, patient_name, seats>>: one without
\* slot_id, one without patient_name, one for an unknown slot, one for the
\* other slot, and every number of seats for the main slot.  The handler of
\* the backend server, whose text is that of server.js, is tried with fewer.
BookInputs(d) ==
    IF d = "backend"
    THEN {<<0, "Ann", 1>>, <<MainSlot, "Ann", -1>>, <<MainSlot, "Ann", 1>>,
          <<MainSlot, "Ann", MaxSeats>>}
    ELSE {<<0, "Ann", 1>>, <<MainSlot, "", 1>>, <<UnknownSlotId, "Ann", 1>>,
          <<OtherSlot, "Ann", 1>>}
            \cup {<<MainSlot, "Ann", k>> : k \in SeatsInputs}

\* The arguments CALL BookAppointment is tried with.
ProcInputs(d) ==
    {<<UnknownSlotId, "Ann", 1>>, <<MainSlot, "Ann", -1>>,
     <<MainSlot, "Ann", 1>>}

NoReq == [op |-> "none", slot_id |-> 0, patient_name |-> "", seats |-> 0]

BookReq(op, s, n, k) ==
    [op |-> op, slot_id |-> s, patient_name |-> n, seats |-> k]

\* ------------------------------------------------------------- responses
\* code: the HTTP status (0: nothing sent yet); error: which message;
\* bookingId, available, expired: <<v>> when the body carries the field;
\* logged: the code of the error the handler caught and wrote to console.error.
NoRes == [code |-> 0, error |-> "", bookingId |-> << >>,
          available |-> << >>, expired |-> << >>, logged |-> ""]

Response(code, error) == [NoRes EXCEPT !.code = code, !.error = error]

\* ------------------------------------------------------------- transactions
NoTx == [availableSeats |-> 0, delta |-> << >>, ins |-> {}, failed |-> {},
         expiredBookings |-> << >>, i |-> 0]

SlotExists(s) == s \in DOMAIN slots

\* What tx[p] has added to slot s so far.
Delta(p, s) == IF s \in DOMAIN tx[p].delta THEN tx[p].delta[s] ELSE 0

\* (mutant) UPDATE slots SET available_seats = available_seats + k with no
\* WHERE id = ?: every row is written.
AddDelta_NoWhere(p, s, k) ==
    [t \in DOMAIN slots |-> Delta(p, t) + k]

AddDelta(p, s, k) ==
    [t \in (DOMAIN tx[p].delta) \cup {s} |-> Delta(p, t) + (IF t = s THEN k ELSE 0)]

\* (mutant) the catch block without its rollback: the writes stay pending.
RolledBack_Missing(p) == tx

\* ROLLBACK: the writes of tx[p] are dropped.
RolledBack(p) == [tx EXCEPT ![p] = NoTx]

\* (mutant) a plain SELECT in place of SELECT ... FOR UPDATE: never waits.
RowFree_NoLock(s) == TRUE

\* A row lock is granted when no transaction holds the row.
RowFree(s) == lock[s] = 0

\* (mutant) a COMMIT or ROLLBACK that keeps the row locks of p.
Unlocked_Kept(p) == lock

\* The locks of p given back (at COMMIT and at ROLLBACK alike).
Unlocked(p) == [s \in DOMAIN lock |-> IF lock[s] = p THEN 0 ELSE lock[s]]

\* COMMIT of tx[p]: its writes become the committed rows.
CommittedSlots(p) ==
    [s \in DOMAIN slots |->
        [slots[s] EXCEPT !.available_seats = @ + Delta(p, s)]]

CommittedBookings(p) ==
    {IF b.id \in tx[p].failed THEN [b EXCEPT !.status = "FAILED"] ELSE b :
        b \in bookings} \cup tx[p].ins

\* ------------------------------------------------------------- start-up
\* Holds written to the bookings table earlier: one seat each, status
\* PENDING, expiring as soon as the clock moves.  The schema keeps the status
\* for such rows and /api/admin/cleanup reads them.  The k-th hold is on slot
\* 3 for odd k and on slot 2 for even k.
PendingHold(k) ==
    [id |-> k, slot_id |-> IF k % 2 = 1 THEN 3 ELSE 2, patient_name |-> "Bob",
     seats_booked |-> 1, status |-> "PENDING", expires_at |-> 0]

\* The rows the bookings table holds at start-up: holds, the newest row
\* being a hold or a booking confirmed earlier (the INSERT of /api/book)
\* whose expires_at has passed as well.
EarlierBooking(k, status) == [PendingHold(k) EXCEPT !.status = status]

\* The seats of slot s that the bookings of B hold.
RECURSIVE SeatsHeld(_, _)
SeatsHeld(B, s) ==
    IF B = {} THEN 0
    ELSE LET b == CHOOSE x \in B : TRUE
         IN (IF b.slot_id = s /\ b.status \in {"PENDING", "CONFIRMED"}
             THEN b.seats_booked ELSE 0) + SeatsHeld(B \ {b}, s)

WithHolds(sl, B) ==
    [s \in DOMAIN sl |->
        [sl[s] EXCEPT !.available_seats = @ - SeatsHeld(B, s)]]

\* The pool of connections, seen from the two slots that requests name:
\* waiting[s]: handlers that hold a connection and wait in SELECT ... FOR
\* UPDATE for the row of slot s; holding[s]: 1 when a handler holds the lock
\* of that row; queue: the slots of the handlers waiting in
\* pool.getConnection(), oldest first; arrived: the calls so far.
PoolSlots == {OtherSlot, MainSlot}

NoPool == [waiting |-> [s \in PoolSlots |-> 0],
           holding |-> [s \in PoolSlots |-> 0],
           queue |-> << >>, arrived |-> 0]

Init ==
    /\ pool = NoPool
    /\ deployment \in Deployments
    /\ now = 0
    /\ \E n \in 0..MaxHolds :
          /\ n > 0 => deployment = "backend"
          /\ n <= 3
          /\ \E last \in {"PENDING", "CONFIRMED"} :
                bookings = {EarlierBooking(k, IF k = n THEN last ELSE "PENDING") :
                               k \in 1..n}
          /\ slots = WithHolds(initializeDatabase(deployment), bookings)
          /\ auto_increment = n + 1
    /\ slots0 = slots
    /\ lock = [s \in DOMAIN slots |-> 0]
    /\ pc = [p \in Procs |-> "idle"]
    /\ req = [p \in Procs |-> NoReq]
    /\ tx = [p \in Procs |-> NoTx]
    /\ res = [p \in Procs |-> NoRes]

\* ------------------------------------------------------------- the clock
\* now is the latest time a statement has read (Date.now(), NOW()), in
\* minutes.  A statement that reads the clock reads any time from now on.
ClockReadings == now..MaxNow

\* ------------------------------------------------------------- POST /api/book
HasDatabase(d) == d \in {"part_000", "server_js", "backend"}

\* Only part_000 checks seats < 1 (lines 604-609).
ChecksSeats(d) == d = "part_000"

\* if (!slot_id || !patient_name) -> 400; part_000: if (seats < 1) -> 400
ValidationError(d, r) ==
    IF r.slot_id = 0 \/ r.patient_name = "" THEN "required"
    ELSE IF ChecksSeats(d) /\ r.seats < 1 THEN "at_least_1"
    ELSE ""

\* Requests are numbered in the order they arrive.
Arrives(p) == \A q \in Procs : q < p => pc[q] # "idle"

\* getConnection, validation, beginTransaction.
BookBegin(p) ==
    /\ pc[p] = "idle"
    /\ HasDatabase(deployment)
    /\ Arrives(p)
    /\ \E in \in BookInputs(deployment) :
         LET r == BookReq("book", in[1], in[2], in[3])
             e == ValidationError(deployment, r)
         IN /\ req' = [req EXCEPT ![p] = r]
            /\ IF e # ""
               THEN /\ res' = [res EXCEPT ![p] = Response(400, e)]
                    /\ pc' = [pc EXCEPT ![p] = "done"]
               ELSE /\ res' = res
                    /\ pc' = [pc EXCEPT ![p] = "select"]
    /\ UNCHANGED <<pool, deployment, slots0, now, slots, bookings, auto_increment, lock, tx>>

\* SELECT available_seats FROM slots WHERE id = ? FOR UPDATE
\* No row: rollback, 404.  A row locked by another transaction: wait.
BookSelect(p) ==
    /\ pc[p] = "select"
    /\ req[p].op = "book"
    /\ IF ~SlotExists(req[p].slot_id)
       THEN /\ res' = [res EXCEPT ![p] = Response(404, "not_found")]
            /\ pc' = [pc EXCEPT ![p] = "done"]
            /\ UNCHANGED <<lock, tx>>
       ELSE /\ RowFree(req[p].slot_id)
            /\ lock' = [lock EXCEPT ![req[p].slot_id] = p]
            /\ tx' = [tx EXCEPT ![p].availableSeats =
                                   slots[req[p].slot_id].available_seats]
            /\ pc' = [pc EXCEPT ![p] = "update"]
            /\ res' = res
    /\ UNCHANGED <<pool, deployment, slots0, now, slots, bookings, auto_increment, req>>

\* The CHECK constraints of database.sql: available_seats >= 0 on slots,
\* seats_booked > 0 on bookings.  The tables that server.js and part_000
\* create have none.
HasChecks(d) == d = "backend"

SlotCheckOk(d, available_seats) == HasChecks(d) => available_seats >= 0

BookingCheckOk(d, seats_booked) == HasChecks(d) => seats_booked > 0

\* Whether the row of slot s passes its CHECK once tx[p] has added k to it.
UpdateOk(p, s, k) ==
    SlotCheckOk(deployment, slots[s].available_seats + Delta(p, s) + k)

\* The row INSERT INTO bookings (..., 'CONFIRMED') writes.
NewBooking(id, r, t) ==
    [id |-> id, slot_id |-> r.slot_id, patient_name |-> r.patient_name,
     seats_booked |-> r.seats, status |-> "CONFIRMED",
     expires_at |-> t + HoldMinutes]

\* (mutant) a catch block that answers every error with the 500.
CatchResponse_Always500(code) == [Response(500, "failed") EXCEPT !.logged = code]

\* catch (err): rollback, then 409 for ER_LOCK_DEADLOCK and
\* ER_LOCK_WAIT_TIMEOUT, 500 for anything else; finally: release.
CatchResponse(code) ==
    [(IF code \in {"ER_LOCK_DEADLOCK", "ER_LOCK_WAIT_TIMEOUT"}
      THEN Response(409, "concurrent")
      ELSE Response(500, "failed")) EXCEPT !.logged = code]

\* (mutant) a catch block that, after a lock error, logs it and tries the
\* transaction again instead of answering.
Catch_Retry(p, code) ==
    /\ tx' = RolledBack(p)
    /\ lock' = Unlocked(p)
    /\ IF code \in {"ER_LOCK_DEADLOCK", "ER_LOCK_WAIT_TIMEOUT"}
       THEN /\ res' = [res EXCEPT ![p] = [NoRes EXCEPT !.logged = code]]
            /\ pc' = [pc EXCEPT ![p] = "select"]
       ELSE /\ res' = [res EXCEPT ![p] = CatchResponse(code)]
            /\ pc' = [pc EXCEPT ![p] = "done"]

Catch(p, code) ==
    /\ tx' = RolledBack(p)
    /\ lock' = Unlocked(p)
    /\ res' = [res EXCEPT ![p] = CatchResponse(code)]
    /\ pc' = [pc EXCEPT ![p] = "done"]

\* The 409 of too few seats; only part_000 sends available and requested.
InsufficientResponse(d, availableSeats) ==
    IF d = "part_000"
    THEN [Response(409, "not_enough") EXCEPT !.available = <<availableSeats>>]
    ELSE Response(409, "not_enough")

\* (mutant) > in place of >=: the last seat is never sold.
SeatsSuffice_Strict(availableSeats, seats) == availableSeats > seats

\* if (availableSeats >= seats) UPDATE slots SET available_seats =
\* available_seats - ?  else rollback, 409.
SeatsSuffice(availableSeats, seats) == availableSeats >= seats

BookUpdate(p) ==
    /\ pc[p] = "update"
    /\ req[p].op = "book"
    /\ IF SeatsSuffice(tx[p].availableSeats, req[p].seats)
       THEN IF UpdateOk(p, req[p].slot_id, - req[p].seats)
            THEN /\ tx' = [tx EXCEPT ![p].delta =
                              AddDelta(p, req[p].slot_id, - req[p].seats)]
                 /\ pc' = [pc EXCEPT ![p] = "insert"]
                 /\ UNCHANGED <<lock, res>>
            ELSE Catch(p, "ER_CHECK_CONSTRAINT_VIOLATED")
       ELSE /\ tx' = RolledBack(p)
            /\ lock' = Unlocked(p)
            /\ res' = [res EXCEPT ![p] =
                         InsufficientResponse(deployment, tx[p].availableSeats)]
            /\ pc' = [pc EXCEPT ![p] = "done"]
    /\ UNCHANGED <<pool, deployment, slots0, now, slots, bookings, auto_increment, req>>

\* INSERT INTO bookings ... ; the id is taken from the table's counter, which
\* a rollback does not give back.
BookInsert(p) ==
    /\ pc[p] = "insert"
    /\ req[p].op = "book"
    /\ auto_increment' = auto_increment + 1
    /\ \E t \in ClockReadings :
     /\ now' = t
     /\ IF BookingCheckOk(deployment, req[p].seats)
        THEN /\ tx' = [tx EXCEPT ![p].ins = {NewBooking(auto_increment, req[p], t)}]
             /\ pc' = [pc EXCEPT ![p] = "commit"]
             /\ UNCHANGED <<lock, res>>
        ELSE Catch(p, "ER_CHECK_CONSTRAINT_VIOLATED")
    /\ UNCHANGED <<pool, deployment, slots0, slots, bookings, req>>

\* res.json({success: true, bookingId: result.insertId, ...})
SuccessResponse(p) ==
    [Response(200, "") EXCEPT
        !.bookingId = <<(CHOOSE b \in tx[p].ins : TRUE).id>>]

\* connection.commit(), then the 200.
BookCommit(p) ==
    /\ pc[p] = "commit"
    /\ req[p].op = "book"
    /\ slots' = CommittedSlots(p)
    /\ bookings' = CommittedBookings(p)
    /\ lock' = Unlocked(p)
    /\ res' = [res EXCEPT ![p] = SuccessResponse(p)]
    /\ tx' = [tx EXCEPT ![p] = NoTx]
    /\ pc' = [pc EXCEPT ![p] = "done"]
    /\ UNCHANGED <<pool, deployment, slots0, now, auto_increment, req>>

InTransaction(p) == pc[p] \in {"select", "update", "insert", "commit"}

\* A query of the transaction fails (connection lost, server error).
BookStorageError(p) ==
    /\ InTransaction(p)
    /\ req[p].op = "book"
    /\ Catch(p, "ER_OTHER")
    /\ UNCHANGED <<pool, deployment, slots0, now, slots, bookings, auto_increment, req>>

\* The wait for the row lock ends with ER_LOCK_WAIT_TIMEOUT.
BookLockTimeout(p) ==
    /\ pc[p] = "select"
    /\ req[p].op = "book"
    /\ SlotExists(req[p].slot_id)
    /\ lock[req[p].slot_id] \notin {0, p}
    /\ Catch(p, "ER_LOCK_WAIT_TIMEOUT")
    /\ UNCHANGED <<pool, deployment, slots0, now, slots, bookings, auto_increment, req>>

\* const connection = await pool.getConnection() stands before the try: when
\* the pool can give no connection (the server refuses, the network is down)
\* the promise rejects, the handler ends by that rejection, and nothing is
\* sent.  While the pool is merely busy the await has no deadline
\* (waitForConnections: true, queueLimit: 0).
BookNoConnection(p) ==
    /\ pc[p] = "idle"
    /\ HasDatabase(deployment)
    /\ Arrives(p)
    /\ req' = [req EXCEPT ![p] = BookReq("book", MainSlot, "Ann", 1)]
    /\ pc' = [pc EXCEPT ![p] = "unhandled"]
    /\ UNCHANGED <<pool, deployment, slots0, now, slots, bookings, auto_increment, lock, tx, res>>

\* ------------------------------------------------------------- BookAppointment
\* The stored procedure of database.sql.  Its result is the row it selects:
\* code 0 (no HTTP status), bookingId <<v_booking_id>> when 'CONFIRMED'.
ProcConfirmed(id) == [Response(0, "") EXCEPT !.bookingId = <<id>>]

\* NULL as booking_id, 'FAILED', 'Not enough seats available'
ProcFailed == Response(0, "not_enough")

\* EXIT HANDLER FOR SQLEXCEPTION: ROLLBACK; RESIGNAL
ProcExitHandler(p, code) ==
    /\ tx' = RolledBack(p)
    /\ lock' = Unlocked(p)
    /\ res' = [res EXCEPT ![p] =
                 [Response(0, "sqlexception") EXCEPT !.logged = code]]
    /\ pc' = [pc EXCEPT ![p] = "done"]

\* CALL BookAppointment(...): START TRANSACTION
ProcBegin(p) ==
    /\ pc[p] = "idle"
    /\ deployment = "backend"
    /\ Arrives(p)
    /\ \E in \in ProcInputs(deployment) :
         req' = [req EXCEPT ![p] = BookReq("proc", in[1], in[2], in[3])]
    /\ pc' = [pc EXCEPT ![p] = "select"]
    /\ UNCHANGED <<pool, deployment, slots0, now, slots, bookings, auto_increment, lock, tx, res>>

\* SELECT available_seats INTO v_available_seats ... FOR UPDATE, then the IF.
\* With no row v_available_seats stays NULL, NULL >= p_seats is not true, and
\* the ELSE branch runs: ROLLBACK and the 'FAILED' row.
ProcSelect(p) ==
    /\ pc[p] = "select"
    /\ req[p].op = "proc"
    /\ IF ~SlotExists(req[p].slot_id)
       THEN /\ res' = [res EXCEPT ![p] = ProcFailed]
            /\ pc' = [pc EXCEPT ![p] = "done"]
            /\ UNCHANGED <<lock, tx>>
       ELSE /\ RowFree(req[p].slot_id)
            /\ lock' = [lock EXCEPT ![req[p].slot_id] = p]
            /\ tx' = [tx EXCEPT ![p].availableSeats =
                                   slots[req[p].slot_id].available_seats]
            /\ pc' = [pc EXCEPT ![p] = "update"]
            /\ res' = res
    /\ UNCHANGED <<pool, deployment, slots0, now, slots, bookings, auto_increment, req>>

\* IF v_available_seats >= p_seats THEN UPDATE slots ... ELSE ROLLBACK ...
ProcUpdate(p) ==
    /\ pc[p] = "update"
    /\ req[p].op = "proc"
    /\ IF SeatsSuffice(tx[p].availableSeats, req[p].seats)
       THEN IF UpdateOk(p, req[p].slot_id, - req[p].seats)
            THEN /\ tx' = [tx EXCEPT ![p].delta =
                              AddDelta(p, req[p].slot_id, - req[p].seats)]
                 /\ pc' = [pc EXCEPT ![p] = "insert"]
                 /\ UNCHANGED <<lock, res>>
            ELSE ProcExitHandler(p, "ER_CHECK_CONSTRAINT_VIOLATED")
       ELSE /\ tx' = RolledBack(p)
            /\ lock' = Unlocked(p)
            /\ res' = [res EXCEPT ![p] = ProcFailed]
            /\ pc' = [pc EXCEPT ![p] = "done"]
    /\ UNCHANGED <<pool, deployment, slots0, now, slots, bookings, auto_increment, req>>

\* INSERT INTO bookings (no status: the column default 'CONFIRMED');
\* SET v_booking_id = LAST_INSERT_ID()
ProcInsert(p) ==
    /\ pc[p] = "insert"
    /\ req[p].op = "proc"
    /\ auto_increment' = auto_increment + 1
    /\ \E t \in ClockReadings :
     /\ now' = t
     /\ IF BookingCheckOk(deployment, req[p].seats)
        THEN /\ tx' = [tx EXCEPT ![p].ins = {NewBooking(auto_increment, req[p], t)}]
             /\ pc' = [pc EXCEPT ![p] = "commit"]
             /\ UNCHANGED <<lock, res>>
        ELSE ProcExitHandler(p, "ER_CHECK_CONSTRAINT_VIOLATED")
    /\ UNCHANGED <<pool, deployment, slots0, slots, bookings, req>>

\* COMMIT, then the 'CONFIRMED' row.
ProcCommit(p) ==
    /\ pc[p] = "commit"
    /\ req[p].op = "proc"
    /\ slots' = CommittedSlots(p)
    /\ bookings' = CommittedBookings(p)
    /\ lock' = Unlocked(p)
    /\ res' = [res EXCEPT ![p] =
                 ProcConfirmed((CHOOSE b \in tx[p].ins : TRUE).id)]
    /\ tx' = [tx EXCEPT ![p] = NoTx]
    /\ pc' = [pc EXCEPT ![p] = "done"]
    /\ UNCHANGED <<pool, deployment, slots0, now, auto_increment, req>>

\* A statement of the procedure raises an SQLEXCEPTION (a lock wait timeout
\* among them).
ProcStorageError(p) ==
    /\ InTransaction(p)
    /\ req[p].op = "proc"
    /\ ProcExitHandler(p, "ER_OTHER")
    /\ UNCHANGED <<pool, deployment, slots0, now, slots, bookings, auto_increment, req>>

\* ------------------------------------------------------------- POST /api/admin/cleanup
InCleanup(p) == pc[p] \in {"c_select", "c_slot", "c_booking", "c_commit"}

\* The ids of B in ascending order.
RECURSIVE SortedIds(_)
SortedIds(I) ==
    IF I = {} THEN << >>
    ELSE LET m == CHOOSE x \in I : \A y \in I : x <= y
         IN <<m>> \o SortedIds(I \ {m})

BookingById(id) == CHOOSE b \in bookings : b.id = id

\* (mutant) the SELECT without its status = 'PENDING'.
ExpiredPending_AnyStatus(B, t) == {b \in B : b.expires_at < t}

\* SELECT id, slot_id, seats_booked FROM bookings
\* WHERE status = 'PENDING' AND expires_at < NOW()
ExpiredPending(B, t) == {b \in B : b.status = "PENDING" /\ b.expires_at < t}

\* getConnection, beginTransaction.
CleanupBegin(p) ==
    /\ pc[p] = "idle"
    /\ deployment = "backend"
    /\ Arrives(p)
    /\ req' = [req EXCEPT ![p] = [NoReq EXCEPT !.op = "cleanup"]]
    /\ pc' = [pc EXCEPT ![p] = "c_select"]
    /\ UNCHANGED <<pool, deployment, slots0, now, slots, bookings, auto_increment, lock, tx, res>>

\* The SELECT: a plain read of the committed rows, locking nothing.
CleanupSelect(p) ==
    /\ pc[p] = "c_select"
    /\ \E t \in ClockReadings :
         LET ids == SortedIds({b.id : b \in ExpiredPending(bookings, t)})
         IN /\ now' = t
            /\ tx' = [tx EXCEPT ![p].expiredBookings =
                         [k \in 1..Len(ids) |-> BookingById(ids[k])],
                                  ![p].i = 1]
            /\ pc' = [pc EXCEPT ![p] = IF Len(ids) = 0 THEN "c_commit" ELSE "c_slot"]
    /\ UNCHANGED <<pool, deployment, slots0, slots, bookings, auto_increment, lock, req, res>>

\* UPDATE slots SET available_seats = available_seats + ? WHERE id = ?
\* (waits while another transaction holds the row).
CleanupReleaseSeats(p) ==
    /\ pc[p] = "c_slot"
    /\ LET b == tx[p].expiredBookings[tx[p].i]
       IN /\ RowFree(b.slot_id) \/ lock[b.slot_id] = p
          /\ lock' = [lock EXCEPT ![b.slot_id] = p]
          /\ tx' = [tx EXCEPT ![p].delta = AddDelta(p, b.slot_id, b.seats_booked)]
    /\ pc' = [pc EXCEPT ![p] = "c_booking"]
    /\ UNCHANGED <<pool, deployment, slots0, now, slots, bookings, auto_increment, req, res>>

\* UPDATE bookings SET status = 'FAILED' WHERE id = ?, and the loop's next turn.
CleanupMarkFailed(p) ==
    /\ pc[p] = "c_booking"
    /\ tx' = [tx EXCEPT ![p].failed = @ \cup {tx[p].expiredBookings[tx[p].i].id},
                        ![p].i = @ + 1]
    /\ pc' = [pc EXCEPT ![p] =
                IF tx[p].i = Len(tx[p].expiredBookings) THEN "c_commit" ELSE "c_slot"]
    /\ UNCHANGED <<pool, deployment, slots0, now, slots, bookings, auto_increment, lock, req, res>>

\* commit, then {success: true, expired: expiredBookings.length}
CleanupCommit(p) ==
    /\ pc[p] = "c_commit"
    /\ slots' = CommittedSlots(p)
    /\ bookings' = CommittedBookings(p)
    /\ lock' = Unlocked(p)
    /\ res' = [res EXCEPT ![p] =
                 [Response(200, "") EXCEPT !.expired = <<Len(tx[p].expiredBookings)>>]]
    /\ tx' = [tx EXCEPT ![p] = NoTx]
    /\ pc' = [pc EXCEPT ![p] = "done"]
    /\ UNCHANGED <<pool, deployment, slots0, now, auto_increment, req>>

\* catch (err): rollback, 500 'Cleanup failed'; a query failed or a lock
\* wait timed out.
CleanupStorageError(p) ==
    /\ InCleanup(p)
    /\ tx' = RolledBack(p)
    /\ lock' = Unlocked(p)
    /\ res' = [res EXCEPT ![p] =
                 [Response(500, "cleanup_failed") EXCEPT !.logged = "ER_OTHER"]]
    /\ pc' = [pc EXCEPT ![p] = "done"]
    /\ UNCHANGED <<pool, deployment, slots0, now, slots, bookings, auto_increment, req>>

\* ------------------------------------------------------------- the stub
\* server.js 261-271: res.json({success: true, bookingId: Date.now(), ...})
SimpleBook(p) ==
    /\ pc[p] = "idle"
    /\ deployment = "simple"
    /\ Arrives(p)
    /\ \E in \in BookInputs(deployment) :
         req' = [req EXCEPT ![p] = BookReq("simple", in[1], in[2], in[3])]
    /\ \E t \in ClockReadings :
         /\ now' = t
         /\ res' = [res EXCEPT ![p] = [Response(200, "") EXCEPT !.bookingId = <<t>>]]
    /\ pc' = [pc EXCEPT ![p] = "done"]
    /\ UNCHANGED <<pool, deployment, slots0, slots, bookings, auto_increment, lock, tx>>

Next ==
    \/ \E p \in Procs :
         \/ BookBegin(p)
         \/ BookSelect(p)
         \/ BookUpdate(p)
         \/ BookInsert(p)
         \/ BookCommit(p)
         \/ BookStorageError(p)
         \/ BookLockTimeout(p)
         \/ BookNoConnection(p)
         \/ ProcBegin(p)
         \/ ProcSelect(p)
         \/ ProcUpdate(p)
         \/ ProcInsert(p)
         \/ ProcCommit(p)
         \/ ProcStorageError(p)
         \/ CleanupBegin(p)
         \/ CleanupSelect(p)
         \/ CleanupReleaseSeats(p)
         \/ CleanupMarkFailed(p)
         \/ CleanupCommit(p)
         \/ CleanupStorageError(p)
         \/ SimpleBook(p)

Spec == Init /\ [][Next]_vars

\* ------------------------------------------------------------- the pool
\* The /api/book handler of the backend server under many calls at once.
\* With NumProcs calls the pool of connectionLimit connections is never
\* empty; here the calls are counted, not told apart, so that more calls
\* than connections can be followed.  Each call asks for one seat of a slot.

\* The connections handed out.
RECURSIVE Sum(_, _)
Sum(f, S) ==
    IF S = {} THEN 0
    ELSE LET x == CHOOSE y \in S : TRUE IN f[x] + Sum(f, S \ {x})

InUse(pl) == Sum(pl.waiting, PoolSlots) + Sum(pl.holding, PoolSlots)

\* connection.release(): the oldest handler waiting in getConnection gets the
\* connection and goes on to its SELECT ... FOR UPDATE.
Released(pl) ==
    IF pl.queue = << >> THEN pl
    ELSE [pl EXCEPT !.waiting[Head(pl.queue)] = @ + 1,
                    !.queue = Tail(pl.queue)]

\* await pool.getConnection(): a free connection at once, else the handler
\* waits in the queue (waitForConnections: true, queueLimit: 0).
PoolGetConnection(s) ==
    /\ pool.arrived < MaxCalls
    /\ pool' = IF InUse(pool) < connectionLimit
               THEN [pool EXCEPT !.arrived = @ + 1, !.waiting[s] = @ + 1]
               ELSE [pool EXCEPT !.arrived = @ + 1, !.queue = Append(@, s)]
    /\ UNCHANGED <<deployment, slots0, now, slots, bookings, auto_increment,
                   lock, pc, req, tx, res>>

\* SELECT ... FOR UPDATE is granted the row lock.
PoolSelect(s) ==
    /\ pool.waiting[s] > 0
    /\ pool.holding[s] = 0
    /\ pool' = [pool EXCEPT !.waiting[s] = @ - 1, !.holding[s] = 1]
    /\ UNCHANGED <<deployment, slots0, now, slots, bookings, auto_increment,
                   lock, pc, req, tx, res>>

\* commit or rollback, the response, finally connection.release().
PoolRelease(s) ==
    /\ pool.holding[s] = 1
    /\ pool' = Released([pool EXCEPT !.holding[s] = 0])
    /\ UNCHANGED <<deployment, slots0, now, slots, bookings, auto_increment,
                   lock, pc, req, tx, res>>

\* ER_LOCK_WAIT_TIMEOUT for a handler waiting for the row: catch, rollback,
\* 409, finally connection.release().
PoolLockTimeout(s) ==
    /\ pool.waiting[s] > 0
    /\ pool.holding[s] = 1
    /\ pool' = Released([pool EXCEPT !.waiting[s] = @ - 1])
    /\ UNCHANGED <<deployment, slots0, now, slots, bookings, auto_increment,
                   lock, pc, req, tx, res>>

PoolInit == Init /\ deployment = "backend"

PoolNext ==
    \E s \in PoolSlots :
        \/ PoolGetConnection(s)
        \/ PoolSelect(s)
        \/ PoolRelease(s)
        \/ PoolLockTimeout(s)

PoolSpec == PoolInit /\ [][PoolNext]_vars

\* ------------------------------------------------------------- the other endpoints
\* The endpoints beside /api/book and /api/admin/cleanup.  Each is served in
\* one step: its one query runs on its own (pool.query, autocommit).

\* max_patients as the body of POST /api/admin/slots gives it.
AddSlotInputs == {-1, 1, MaxSeats}

AddSlotReq(m) ==
    [op |-> "add_slot", max_patients |-> m, slot_id |-> 0, patient_name |-> "",
     seats |-> 0]

\* INSERT INTO slots (..., max_patients, available_seats) VALUES (..., ?, ?)
\* with [..., max_patients, max_patients]; 500 when the INSERT fails (the
\* CHECK available_seats >= 0 of database.sql).
AddSlot(p) ==
    /\ pc[p] = "idle"
    /\ deployment \in {"part_000", "backend"}
    /\ Arrives(p)
    /\ \E m \in AddSlotInputs :
         /\ req' = [req EXCEPT ![p] = AddSlotReq(m)]
         /\ IF SlotCheckOk(deployment, m)
            THEN /\ slots' = Append(slots, Row(<<m, m>>))
                 /\ lock' = Append(lock, 0)
                 /\ res' = [res EXCEPT ![p] = Response(200, "")]
            ELSE /\ UNCHANGED <<slots, lock>>
                 /\ res' = [res EXCEPT ![p] =
                              [Response(500, "failed") EXCEPT
                                  !.logged = "ER_CHECK_CONSTRAINT_VIOLATED"]]
    /\ pc' = [pc EXCEPT ![p] = "done"]
    /\ UNCHANGED <<pool, deployment, slots0, now, bookings, auto_increment, tx>>

\* GET /health, GET /api/doctors, GET /api/slots, GET /api/bookings and
\* POST /api/admin/doctors: they read, or write the doctors table only.
OtherEndpoints == {"health", "slots", "add_doctor"}

OtherEndpoint(p) ==
    /\ pc[p] = "idle"
    /\ HasDatabase(deployment)
    /\ Arrives(p)
    /\ \E op \in OtherEndpoints : req' = [req EXCEPT ![p] = [NoReq EXCEPT !.op = op]]
    /\ res' = [res EXCEPT ![p] = Response(200, "")]
    /\ pc' = [pc EXCEPT ![p] = "done"]
    /\ UNCHANGED <<pool, deployment, slots0, now, slots, bookings, auto_increment, lock, tx>>

\* The booking ids a cancellation is asked for: the two oldest, and none.
CancelInputs == {1, 2, UnknownSlotId}

\* A request to cancel booking id.  No server has a route for it; the
\* request falls through to the last middleware, which answers 404
\* 'Endpoint not found'.
CancelReq(id) ==
    [op |-> "cancel", id |-> id, slot_id |-> 0, patient_name |-> "", seats |-> 0]

NoSuchEndpoint(p) ==
    /\ pc[p] = "idle"
    /\ HasDatabase(deployment)
    /\ Arrives(p)
    /\ \E id \in CancelInputs : req' = [req EXCEPT ![p] = CancelReq(id)]
    /\ res' = [res EXCEPT ![p] = Response(404, "endpoint_not_found")]
    /\ pc' = [pc EXCEPT ![p] = "done"]
    /\ UNCHANGED <<pool, deployment, slots0, now, slots, bookings, auto_increment, lock, tx>>

\* Every endpoint of the servers, without the errors of the storage.
AdminNext ==
    \E p \in Procs :
        \/ BookBegin(p)
        \/ BookSelect(p)
        \/ BookUpdate(p)
        \/ BookInsert(p)
        \/ BookCommit(p)
        \/ CleanupBegin(p)
        \/ CleanupSelect(p)
        \/ CleanupReleaseSeats(p)
        \/ CleanupMarkFailed(p)
        \/ CleanupCommit(p)
        \/ AddSlot(p)
        \/ OtherEndpoint(p)
        \/ NoSuchEndpoint(p)

AdminSpec == Init /\ [][AdminNext]_vars

\* ------------------------------------------------------------- cleanup, again and again
\* /api/admin/cleanup called time after time ("cron job would call this"),
\* in a database whose expired holds include one that cannot be reclaimed:
\* the first statement the loop runs for it fails on every attempt.

\* The hold that cannot be reclaimed: the newest.
Unreclaimable == MaxHolds

Current(p) == tx[p].expiredBookings[tx[p].i]

\* The UPDATE slots of the loop, for a booking that can be reclaimed.
ReclaimReleaseSeats(p) ==
    /\ pc[p] = "c_slot"
    /\ Current(p).id # Unreclaimable
    /\ CleanupReleaseSeats(p)

\* The UPDATE slots of the loop fails: catch, rollback, 500.
ReclaimFails(p) ==
    /\ pc[p] = "c_slot"
    /\ Current(p).id = Unreclaimable
    /\ CleanupStorageError(p)

\* The caller has its answer; the process serves the next request.
NextRequest(p) ==
    /\ pc[p] = "done"
    /\ pc' = [pc EXCEPT ![p] = "idle"]
    /\ req' = [req EXCEPT ![p] = NoReq]
    /\ res' = [res EXCEPT ![p] = NoRes]
    /\ UNCHANGED <<pool, deployment, slots0, now, slots, bookings, auto_increment, lock, tx>>

ReclaimInit ==
    /\ Init
    /\ deployment = "backend"
    /\ Cardinality(bookings) = MaxHolds
    /\ \A b \in bookings : b.status = "PENDING"

ReclaimNext ==
    \E p \in Procs :
        \/ CleanupBegin(p)
        \/ CleanupSelect(p)
        \/ ReclaimReleaseSeats(p)
        \/ ReclaimFails(p)
        \/ CleanupMarkFailed(p)
        \/ CleanupCommit(p)
        \/ NextRequest(p)

\* Every request is served to its end, and requests keep coming.
ReclaimFairness ==
    \A p \in Procs :
        /\ WF_vars(CleanupBegin(p))
        /\ WF_vars(CleanupSelect(p))
        /\ WF_vars(ReclaimReleaseSeats(p))
        /\ WF_vars(ReclaimFails(p))
        /\ WF_vars(CleanupMarkFailed(p))
        /\ WF_vars(CleanupCommit(p))
        /\ WF_vars(NextRequest(p))

ReclaimSpec == ReclaimInit /\ [][ReclaimNext]_vars /\ ReclaimFairness

\* ------------------------------------------------------------- failed rollback
\* catch (err) { await connection.rollback(); ... } finally {
\* connection.release(); }: when the rollback fails in its turn the catch
\* block ends by that error before console.error and the answer, the finally
\* block releases the connection, and the handler ends with nothing sent.
\* What becomes of the transaction is the server's affair: if it saw the
\* connection end it rolls the transaction back; if the ROLLBACK was refused
\* on a live connection the transaction stays as it is, its writes pending
\* and its row locks held, on the connection now back in the pool.
RollbackFails(p) ==
    /\ \/ tx' = RolledBack(p) /\ lock' = Unlocked(p)
       \/ tx' = tx /\ lock' = lock
    /\ pc' = [pc EXCEPT ![p] = "unhandled"]
    /\ UNCHANGED <<pool, deployment, slots0, now, slots, bookings, auto_increment, req, res>>

\* A statement of /api/book throws and so does the rollback of the catch.
BookRollbackFails(p) ==
    /\ InTransaction(p)
    /\ req[p].op = "book"
    /\ RollbackFails(p)

\* A statement of /api/admin/cleanup throws and so does the rollback.
CleanupRollbackFails(p) ==
    /\ InCleanup(p)
    /\ RollbackFails(p)

ConnInit == Init /\ HasDatabase(deployment)

ConnNext ==
    \E p \in Procs :
        \/ BookBegin(p)
        \/ BookSelect(p)
        \/ BookUpdate(p)
        \/ BookInsert(p)
        \/ BookCommit(p)
        \/ BookStorageError(p)
        \/ BookLockTimeout(p)
        \/ BookRollbackFails(p)
        \/ CleanupBegin(p)
        \/ CleanupSelect(p)
        \/ CleanupReleaseSeats(p)
        \/ CleanupMarkFailed(p)
        \/ CleanupCommit(p)
        \/ CleanupStorageError(p)
        \/ CleanupRollbackFails(p)

ConnSpec == ConnInit /\ [][ConnNext]_vars

\* ------------------------------------------------------------- fair locks
\* The /api/book calls by themselves, with row locks granted fairly: a
\* statement that can go on does go on (InnoDB grants a free row to a
\* transaction waiting for it, the event loop resumes a handler whose await
\* has settled).  Storage errors and lock timeouts may happen, never must.
BookInit == Init /\ deployment \in {"part_000", "backend"}

BookNext ==
    \E p \in Procs :
        \/ BookBegin(p)
        \/ BookSelect(p)
        \/ BookUpdate(p)
        \/ BookInsert(p)
        \/ BookCommit(p)
        \/ BookStorageError(p)
        \/ BookLockTimeout(p)

BookFairness ==
    \A p \in Procs :
        /\ WF_vars(BookSelect(p))
        /\ WF_vars(BookUpdate(p))
        /\ WF_vars(BookInsert(p))
        /\ WF_vars(BookCommit(p))

BookFairSpec == BookInit /\ [][BookNext]_vars /\ BookFairness

\* ------------------------------------------------------------- outcomes
\* The outcome classes of the interface, read from a finished call's response.
Done(p) == pc[p] = "done"

\* success: the body (or the procedure's row) carries a booking id.
Succeeded(p) == Done(p) /\ res[p].error = "" /\ res[p].bookingId # << >>

\* InsufficientCapacity: 'Not enough seats available'.
Insufficient(p) == Done(p) /\ res[p].error = "not_enough"

\* InvalidRequest: one of the two 400s.
Invalid(p) == Done(p) /\ res[p].code = 400

\* NotFound: the 404.
NotFound(p) == Done(p) /\ res[p].code = 404

\* The call was ended by a storage error or a lock wait timeout.
Faulted(p) == Done(p) /\ res[p].logged \in {"ER_OTHER", "ER_LOCK_WAIT_TIMEOUT"}

\* p is a call of one of the booking transactions.
IsBooking(p) == req[p].op \in {"book", "proc"}

WithinBounds(r) == 0 <= r.available_seats /\ r.available_seats <= r.max_patients

\* ------------------------------------------------------------- claims

\* C1: in every committed state, for every slot, available_seats equals
\* max_patients minus the seats_booked of the slot's PENDING and CONFIRMED
\* bookings.
C1_CapacityInvariant ==
    \A s \in DOMAIN slots :
        slots[s].available_seats = slots[s].max_patients - SeatsHeld(bookings, s)

\* C2: when every one of the NumProcs calls is a booking of one seat of the
\* same slot s, s started with available_seats = max_patients = C < NumProcs,
\* and no call met a storage error or a lock timeout, then once all have
\* returned exactly C have succeeded, the other NumProcs - C have failed with
\* InsufficientCapacity, and available_seats is 0.
C2_Launched(s) ==
    /\ \A p \in Procs :
          /\ Done(p) /\ IsBooking(p) /\ ~Faulted(p)
          /\ req[p].slot_id = s /\ req[p].seats = 1 /\ req[p].patient_name # ""
    /\ slots0[s].available_seats = slots0[s].max_patients
    /\ slots0[s].max_patients < NumProcs

C2_NoOverbooking ==
    \A s \in DOMAIN slots :
        C2_Launched(s) =>
            /\ Cardinality({p \in Procs : Succeeded(p)}) = slots0[s].max_patients
            /\ Cardinality({p \in Procs : Insufficient(p)})
                  = NumProcs - slots0[s].max_patients
            /\ slots[s].available_seats = 0

\* C2's case: three calls for the two seats of a slot have all returned.
C2_Witness ==
    \E s \in DOMAIN slots :
        /\ C2_Launched(s)
        /\ slots0[s].max_patients = 2
        /\ \E p \in Procs : Insufficient(p)

\* C3: every slot whose available_seats was within 0..max_patients at
\* start-up keeps it there, whatever the bodies of the book calls.
C3_BoundsInvariant ==
    \A s \in DOMAIN slots :
        WithinBounds(slots0[s]) => WithinBounds(slots[s])

\* What one call does when it runs alone on a slot with avail seats left:
\* its outcome class and the seats left after it.
SeqBook(d, r, avail) ==
    IF r.op = "book" /\ ValidationError(d, r) # ""
    THEN [kind |-> "invalid", avail |-> avail]
    ELSE IF ~SeatsSuffice(avail, r.seats)
    THEN [kind |-> "not_enough", avail |-> avail]
    ELSE IF ~BookingCheckOk(d, r.seats)
    THEN [kind |-> "check", avail |-> avail]
    ELSE [kind |-> "success", avail |-> avail - r.seats]

\* The outcome class of a finished call.
Kind(p) ==
    IF Succeeded(p) THEN "success"
    ELSE IF Insufficient(p) THEN "not_enough"
    ELSE IF Invalid(p) THEN "invalid"
    ELSE IF res[p].logged = "ER_CHECK_CONSTRAINT_VIOLATED" THEN "check"
    ELSE "other"

\* The orders in which the calls of S can run one at a time.
Orders(S) ==
    {o \in [1..Cardinality(S) -> S] : \A i, j \in DOMAIN o : o[i] = o[j] => i = j}

\* Running the calls of order from the i-th on, one at a time, on slot s with
\* avail seats left gives every call the outcome it returned (a 409 of
\* part_000 with the seats left at its turn) and ends with the seats slot s
\* has.  A call ended by a storage error or lock timeout changes nothing.
RECURSIVE Serial(_, _, _, _)
Serial(s, order, i, avail) ==
    IF i > Len(order) THEN avail = slots[s].available_seats
    ELSE LET p == order[i]
             o == SeqBook(deployment, req[p], avail)
         IN IF Faulted(p) THEN Serial(s, order, i + 1, avail)
            ELSE /\ Kind(p) = o.kind
                 /\ (o.kind = "not_enough" /\ res[p].available # << >>)
                        => res[p].available = <<avail>>
                 /\ Serial(s, order, i + 1, o.avail)

\* The calls against slot s.
CallsOn(s) == {p \in Procs : req[p].slot_id = s}

\* The rows of the bookings table at start-up, whatever their status now.
EarlierRows ==
    {EarlierBooking(k, st) : k \in 1..MaxHolds,
                             st \in {"PENDING", "CONFIRMED", "FAILED"}}

\* The bookings of slot s are those of start-up plus one CONFIRMED booking
\* per successful call, with the id returned and the seats asked for.
BookingsMatch(s) ==
    /\ \A p \in CallsOn(s) : Succeeded(p) =>
          \E b \in bookings :
              /\ b.id = res[p].bookingId[1] /\ b.slot_id = s
              /\ b.seats_booked = req[p].seats /\ b.status = "CONFIRMED"
    /\ Cardinality({b \in bookings \ EarlierRows :
                       b.slot_id = s /\ b.status = "CONFIRMED"})
          = Cardinality({p \in CallsOn(s) : Succeeded(p)})

AllBookingsDone == \A p \in Procs : Done(p) /\ IsBooking(p)

\* C4: once concurrent booking calls have all returned, for every slot the
\* outcomes of the calls against it, its available_seats and its bookings are
\* those of running these calls one at a time in some order.
C4_Linearizable ==
    AllBookingsDone =>
        \A s \in DOMAIN slots :
            /\ \E order \in Orders(CallsOn(s)) :
                  Serial(s, order, 1, slots0[s].available_seats)
            /\ BookingsMatch(s)

\* C4's case: three calls against one slot, of which one succeeded, one was
\* turned down for lack of seats and one booked a different number of seats.
C4_Witness ==
    /\ AllBookingsDone
    /\ \E s \in DOMAIN slots :
          /\ CallsOn(s) = Procs
          /\ \E p, q \in Procs :
                /\ Succeeded(p) /\ Insufficient(q)
                /\ req[p].seats # req[q].seats

\* C5: the step in which a call reports success commits, in that one step,
\* the decrement of its slot's available_seats by the seats asked for and a
\* new CONFIRMED booking of that slot with those seats, an expiry time and
\* the id returned.
C5_Booked(p) ==
    LET s == req'[p].slot_id
        k == req'[p].seats
    IN /\ s \in DOMAIN slots
       /\ slots' = [slots EXCEPT ![s].available_seats = @ - k]
       /\ \E b \in bookings' \ bookings :
             /\ bookings' = bookings \cup {b}
             /\ b.id = res'[p].bookingId[1] /\ b.slot_id = s
             /\ b.seats_booked = k /\ b.status = "CONFIRMED"
             /\ b.expires_at \in Int

C5_SuccessIsBooked ==
    [][\A p \in Procs : (~Succeeded(p) /\ Succeeded(p)') => C5_Booked(p)]_vars

\* The call was ended by an error of one of its statements.
Failed(p) == Done(p) /\ res[p].logged # ""

\* p takes the step that ends its call.
Returns(p) == ~Done(p) /\ Done(p)'

Decides(p) ==
    /\ IsBooking(p) /\ pc[p] = "update" /\ pc'[p] # "update"
    /\ res'[p].logged = ""

\* C7: when the seats asked for exceed the available_seats read under the
\* lock, the call changes no slot and no booking and returns
\* InsufficientCapacity carrying that available_seats value.
C7_InsufficientCarriesAvailable ==
    [][\A p \in Procs :
          (Decides(p) /\ req[p].seats > tx[p].availableSeats) =>
              /\ slots' = slots /\ bookings' = bookings
              /\ Insufficient(p)'
              /\ res'[p].available = <<tx[p].availableSeats>>]_vars

\* The request fails a precondition of book.
BadInput(r) == r.seats < 1 \/ r.slot_id = 0 \/ r.patient_name = ""

\* C8: a book call whose input fails a precondition returns InvalidRequest in
\* its first step, begins no transaction, takes no lock and changes nothing.
C8_InvalidRequest ==
    [][\A p \in Procs :
          (pc[p] = "idle" /\ pc'[p] # "idle" /\ req'[p].op = "book"
              /\ BadInput(req'[p])) =>
              /\ Invalid(p)'
              /\ slots' = slots /\ bookings' = bookings /\ lock' = lock
              /\ tx' = tx]_vars

\* C9: a booking call naming a slot id of no row returns NotFound, not
\* InsufficientCapacity, and changes no slot and no booking.
C9_NotFound ==
    [][\A p \in Procs :
          (IsBooking(p) /\ pc[p] = "select" /\ Returns(p)
              /\ ~SlotExists(req[p].slot_id) /\ res'[p].logged = "") =>
              /\ NotFound(p)' /\ ~Insufficient(p)'
              /\ slots' = slots /\ bookings' = bookings]_vars

\* C10: a booking call for seats >= 1 of an existing slot that no storage
\* error or lock timeout ends returns either success or InsufficientCapacity,
\* and InsufficientCapacity only while it holds the slot's lock and the seats
\* asked for exceed the slot's available_seats, which are those it read.
C10_NoSpuriousRejection ==
    [][\A p \in Procs :
          (Returns(p) /\ IsBooking(p) /\ ~BadInput(req[p])
              /\ SlotExists(req[p].slot_id) /\ ~Failed(p)') =>
              \/ Succeeded(p)'
              \/ /\ Insufficient(p)'
                 /\ lock[req[p].slot_id] = p
                 /\ tx[p].availableSeats = slots[req[p].slot_id].available_seats
                 /\ req[p].seats > slots[req[p].slot_id].available_seats]_vars

\* C10's case: every seat of a slot has been granted to calls that ran
\* together, and a further call was turned down with no seat left.
C10_Witness ==
    \E s \in DOMAIN slots :
        /\ slots0[s].available_seats = 2 /\ slots[s].available_seats = 0
        /\ \E p, q, r \in CallsOn(s) :
              /\ p # q /\ Succeeded(p) /\ Succeeded(q) /\ Insufficient(r)
              /\ req[r].seats = 1

\* No other call is under way.
Alone(p) == \A q \in Procs \ {p} : pc[q] \in {"idle", "done", "unhandled"}

\* p returns, alone and without a statement error, from a booking of k seats
\* of a slot created with capacity 2 and available 2 that now has avail seats.
C11_Call(p, avail, k) ==
    /\ Returns(p) /\ IsBooking(p) /\ ~Failed(p)' /\ Alone(p)
    /\ req[p].seats = k /\ req[p].patient_name # ""
    /\ SlotExists(req[p].slot_id)
    /\ slots0[req[p].slot_id] = Row(<<2, 2>>)
    /\ slots[req[p].slot_id].available_seats = avail

\* C11: on a slot of capacity 2, called one after the other: with 2 seats
\* available a booking of 1 seat succeeds and leaves 1; with 1 seat available
\* a booking of 2 seats fails with InsufficientCapacity reporting available =
\* 1 and leaves 1; with 1 seat available a booking of 1 seat succeeds and
\* leaves 0.
C11_Scenario ==
    [][\A p \in Procs :
          LET s == req[p].slot_id
          IN /\ C11_Call(p, 2, 1) =>
                   Succeeded(p)' /\ slots'[s].available_seats = 1
             /\ C11_Call(p, 1, 2) =>
                   /\ Insufficient(p)' /\ res'[p].available = <<1>>
                   /\ slots'[s].available_seats = 1
             /\ C11_Call(p, 1, 1) =>
                   Succeeded(p)' /\ slots'[s].available_seats = 0]_vars

\* Transaction p has read the available_seats of slot s for its booking
\* decision, or has written them, and has not ended.
Uses(p, s) ==
    \/ IsBooking(p) /\ pc[p] \in {"update", "insert", "commit"}
          /\ req[p].slot_id = s
    \/ s \in DOMAIN tx[p].delta

\* C12: while a transaction that locked the row of slot s has not ended, it
\* is the only booking or cleanup transaction that has read the
\* available_seats of s for a decision or has written them; and the committed
\* available_seats of s change only by the commit of the holder of its lock.
C12_MutualExclusion ==
    /\ [](\A s \in DOMAIN slots : \A p \in Procs : Uses(p, s) => lock[s] = p)
    /\ [][\A s \in DOMAIN slots :
             slots'[s] # slots[s] =>
                 \E p \in Procs :
                     /\ lock[s] = p /\ Uses(p, s)
                     /\ Returns(p) /\ lock'[s] = 0]_vars

\* C12's case: a booking holds the lock of a slot while another booking of
\* that slot and a cleanup about to give seats back to it wait for the lock.
C12_Witness ==
    \E p, q, r \in Procs :
        /\ req[p].op = "book" /\ pc[p] = "insert"
        /\ lock[req[p].slot_id] = p
        /\ req[q].op = "book" /\ pc[q] = "select"
        /\ req[q].slot_id = req[p].slot_id
        /\ pc[r] = "c_slot"
        /\ tx[r].expiredBookings[tx[r].i].slot_id = req[p].slot_id

\* Retryable(ConcurrentConflict): the 409 'Concurrent booking detected.
\* Please try again.'
Retryable(p) == Done(p) /\ res[p].code = 409 /\ res[p].error = "concurrent"

\* Internal: the 500 'Booking failed'.
Internal(p) == Done(p) /\ res[p].code = 500

LockErrors == {"ER_LOCK_DEADLOCK", "ER_LOCK_WAIT_TIMEOUT"}

\* C13: a /api/book call that a lock wait timeout or a deadlock ends is
\* rolled back (no committed row changes, its writes are dropped, its locks
\* freed) and answers Retryable, which is neither InsufficientCapacity nor
\* Internal; and Retryable is the answer to nothing but such an error.
C13_Retryable ==
    [][\A p \in Procs :
          (Returns(p) /\ req[p].op = "book") =>
              /\ res'[p].logged \in LockErrors =>
                    /\ Retryable(p)' /\ ~Insufficient(p)' /\ ~Internal(p)'
                    /\ slots' = slots /\ bookings' = bookings
                    /\ tx'[p] = NoTx
                    /\ \A s \in DOMAIN lock : lock'[s] # p
              /\ Retryable(p)' => res'[p].logged \in LockErrors]_vars

\* C13's case: one call timed out waiting for the lock of a slot, another
\* was told there are not enough seats of that slot.
C13_Witness ==
    \E p, q \in Procs :
        /\ req[p].op = "book" /\ Retryable(p)
        /\ res[p].logged = "ER_LOCK_WAIT_TIMEOUT"
        /\ req[q].op = "book" /\ Insufficient(q)
        /\ req[q].slot_id = req[p].slot_id

\* The handler of p has run to its end.
Ended(p) == pc[p] \in {"done", "unhandled"}

\* C14: a /api/book call whose handler has ended has sent an outcome, and
\* when it ended because no storage connection could be obtained that
\* outcome is Retryable(ConcurrentConflict).
C14_BoundedWait ==
    \A p \in Procs :
        (req[p].op = "book" /\ Ended(p)) =>
            /\ res[p].code # 0
            /\ pc[p] = "unhandled" =>
                  res[p].code = 409 /\ res[p].error = "concurrent"

\* The slots of the handlers waiting for a connection.
Queued == {pool.queue[i] : i \in DOMAIN pool.queue}

\* C15: a /api/book call of slot a has to wait only when a transaction of
\* slot a itself is under way: it never waits, for a connection or for a
\* lock, on account of transactions of other slots alone, however many.
C15_NoContention ==
    \A a \in PoolSlots :
        a \in Queued => pool.waiting[a] + pool.holding[a] > 0

IsCleanup(p) == req[p].op = "cleanup"

\* The rows the SELECT of cleanup p returned.
Selected(p) == {tx[p].expiredBookings[k] : k \in DOMAIN tx[p].expiredBookings}

TwiceInARow(p, q) ==
    /\ p # q /\ IsCleanup(p) /\ Done(p) /\ res[p].code = 200
    /\ IsCleanup(q)
    /\ \A r \in Procs \ {p, q} : pc[r] = "idle"

\* C17: a cleanup run right after another one, at the time the first one
\* read, selects no booking; and a cleanup that selected no booking reports 0
\* and changes no slot and no booking.
C17_Idempotent ==
    [][\A q \in Procs :
          /\ (pc[q] = "c_select" /\ pc'[q] \in {"c_slot", "c_commit"}
                /\ now' = now /\ \E p \in Procs : TwiceInARow(p, q)) =>
                Selected(q)' = {} /\ pc'[q] = "c_commit"
          /\ (IsCleanup(q) /\ Returns(q) /\ res'[q].code = 200
                /\ Selected(q) = {}) =>
                /\ res'[q].expired = <<0>>
                /\ slots' = slots /\ bookings' = bookings]_vars

\* C17's case: the first cleanup reclaimed the expired hold, the second one,
\* run after it, reclaimed nothing, and the seat was given back once.
C17_Witness ==
    \E p, q \in Procs :
        /\ TwiceInARow(p, q) /\ Done(q)
        /\ res[p].expired = <<1>> /\ res[q].expired = <<0>>
        /\ \E b \in bookings :
              /\ b.status = "FAILED"
              /\ slots[b.slot_id].available_seats =
                    slots0[b.slot_id].available_seats + b.seats_booked

Terminal == {"CONFIRMED", "FAILED", "CANCELLED"}

\* C20: a booking whose status is CONFIRMED, FAILED or CANCELLED is never
\* changed or removed by any step; and no cleanup ever selects, marks or
\* gives back the seats of a booking that is CONFIRMED, its expires_at passed
\* or not.
C20_TerminalStatus ==
    /\ [][\A b \in bookings : b.status \in Terminal => b \in bookings']_vars
    /\ [](\A p \in Procs : \A b \in bookings :
             b.status = "CONFIRMED" =>
                 /\ b.id \notin tx[p].failed
                 /\ \A e \in Selected(p) : e.id # b.id)

\* C20's case: a cleanup has run and reclaimed a hold at a time when a
\* CONFIRMED booking's expires_at had passed as well; that booking is
\* CONFIRMED still and its seat is still taken.
C20_Witness ==
    \E p \in Procs :
        /\ IsCleanup(p) /\ Done(p) /\ res[p].expired = <<1>>
        /\ \E b, c \in bookings :
              /\ b.status = "FAILED" /\ c.status = "CONFIRMED"
              /\ c.expires_at <= b.expires_at /\ b.expires_at < now
              /\ slots[c.slot_id].available_seats
                    = slots0[c.slot_id].available_seats

\* The booking that cancel request p names, if there is one.
Named(p) == {b \in bookings : b.id = req[p].id}

\* C21: a cancel request for a PENDING or CONFIRMED booking leaves it
\* CANCELLED with its seats_booked added to its slot's available_seats; for
\* an unknown booking it fails (NotFound), for a FAILED or CANCELLED one it
\* fails too (AlreadyTerminal), and then nothing is changed.
C21_Cancel ==
    [][\A p \in Procs :
          (Returns(p) /\ req'[p].op = "cancel") =>
              IF \E b \in Named(p)' : b.status \in {"PENDING", "CONFIRMED"}
              THEN \E b \in Named(p)' :
                      /\ bookings' = (bookings \ {b})
                                        \cup {[b EXCEPT !.status = "CANCELLED"]}
                      /\ slots' = [slots EXCEPT ![b.slot_id].available_seats =
                                                    @ + b.seats_booked]
              ELSE /\ res'[p].code \notin {0, 200}
                   /\ slots' = slots /\ bookings' = bookings]_vars

Full(r) == r.available_seats = r.max_patients

\* C22: every slot row is created with available_seats = max_patients: the
\* sample rows inserted at start-up, and every row that an add-slot request
\* inserts.
C22_CreatedFull ==
    /\ [](\A s \in DOMAIN initializeDatabase(deployment) :
             Full(initializeDatabase(deployment)[s]))
    /\ [][\A s \in DOMAIN slots' \ DOMAIN slots : Full(slots'[s])]_vars

\* The step of a booking transaction that decreases the seats of slot s by
\* the seats asked for, having checked that that many are available.
C23_Decrease(p, s) ==
    /\ IsBooking(p) /\ Succeeded(p)' /\ req[p].slot_id = s
    /\ slots[s].available_seats >= req[p].seats
    /\ slots'[s].available_seats = slots[s].available_seats - req[p].seats
    /\ slots'[s].available_seats < slots[s].available_seats

\* The step of a release that increases the seats of slot s by the
\* seats_booked of bookings whose status allows it at that moment.
C23_Increase(p, s) ==
    /\ IsCleanup(p)
    /\ \A e \in Selected(p) : \E b \in bookings : b.id = e.id /\ b.status = "PENDING"
    /\ slots'[s].available_seats =
          slots[s].available_seats + SeatsHeld(Selected(p), s)
    /\ slots'[s].available_seats > slots[s].available_seats

\* C23: once a slot exists, its row changes only in a step that is the
\* checked decrease of a booking or the checked increase of a release, and
\* then only in available_seats; no other request changes it.
C23_Frame ==
    [][\A s \in DOMAIN slots :
          slots'[s] # slots[s] =>
              /\ slots'[s].max_patients = slots[s].max_patients
              /\ \E p \in Procs :
                    Returns(p) /\ (C23_Decrease(p, s) \/ C23_Increase(p, s))]_vars

\* C24: with cleanup called again and again, a PENDING booking whose
\* expires_at has passed, other than the one that cannot be reclaimed, is
\* eventually FAILED.
C24_EventuallyReclaimed ==
    \A id \in 1..MaxHolds :
        (id # Unreclaimable /\ now > 0
            /\ \E b \in bookings : b.id = id /\ b.status = "PENDING")
          ~> (\E b \in bookings : b.id = id /\ b.status = "FAILED")

\* The bookings that the step moves from PENDING to FAILED.
Moved ==
    {b \in bookings : b.status = "PENDING"
                        /\ [b EXCEPT !.status = "FAILED"] \in bookings'}

\* C25: the count a cleanup returns is the number of bookings that its
\* commit moves from PENDING to FAILED (so that the counts of concurrent
\* cleanups add up to the bookings reclaimed).
C25_CountIsReclaimed ==
    [][\A p \in Procs :
          (IsCleanup(p) /\ Returns(p) /\ res'[p].code = 200) =>
              res'[p].expired = <<Cardinality(Moved)>>]_vars

\* How far a handler has come: beginTransaction happens on leaving "idle",
\* the lock attempt is the stay in "select".
Rank(c) ==
    CASE c = "idle" -> 0
      [] c = "select" -> 1
      [] c = "update" -> 2
      [] c = "insert" -> 3
      [] c = "commit" -> 4
      [] OTHER -> 5

\* C26: a /api/book call only moves forward: it never begins a second
\* transaction and never makes a second lock attempt; once a lock timeout or
\* deadlock has hit it, it has ended with its answer.
C26_NoAutoRetry ==
    /\ [][\A p \in Procs :
             (req'[p].op = "book" /\ pc'[p] # pc[p]) =>
                 Rank(pc'[p]) > Rank(pc[p])]_vars
    /\ [](\A p \in Procs :
             (req[p].op = "book" /\ res[p].logged \in LockErrors) =>
                 Done(p) /\ res[p].code # 0)

\* C26's case: a call gave up with the lock timeout while the transaction it
\* waited for still holds the lock.
C26_Witness ==
    \E p \in Procs :
        /\ req[p].op = "book" /\ Done(p)
        /\ res[p].logged = "ER_LOCK_WAIT_TIMEOUT"
        /\ lock[req[p].slot_id] \in Procs \ {p}

\* The outcome class of the interface a finished call's answer falls in.
Class(p) ==
    IF Succeeded(p) THEN "success"
    ELSE IF Invalid(p) THEN "InvalidRequest"
    ELSE IF NotFound(p) THEN "NotFound"
    ELSE IF Insufficient(p) THEN "InsufficientCapacity"
    ELSE "other"

\* p is the first call to run: no other request has arrived yet.
First(p) == \A q \in Procs \ {p} : pc[q] = "idle"

\* The seats a slots table has left in slot s (0 when s names no row).
SeatsLeft(tbl, s) == IF s \in DOMAIN tbl THEN tbl[s].available_seats ELSE 0

\* C27: the /api/book handlers of server.js, database.sql and part_000 and
\* the procedure BookAppointment agree: whichever of them serves a request
\* on the start-up tables, without a storage error or lock timeout, the
\* outcome class is the same (InvalidRequest for a missing field or fewer
\* than one seat, else NotFound for an unknown slot, else
\* InsufficientCapacity when the slot has fewer seats left than asked, else
\* success) and so is the change: the seats taken from the slot on success
\* with one booking added, and nothing otherwise.
C27_ImplementationsAgree ==
    \A p \in Procs :
        (IsBooking(p) /\ Done(p) /\ ~Faulted(p) /\ First(p)) =>
            LET r == req[p]
                avail == SeatsLeft(slots0, r.slot_id)
                class == IF r.slot_id = 0 \/ r.patient_name = "" \/ r.seats < 1
                            THEN "InvalidRequest"
                         ELSE IF r.slot_id \notin DOMAIN slots0 THEN "NotFound"
                         ELSE IF avail < r.seats THEN "InsufficientCapacity"
                         ELSE "success"
                taken == IF class = "success" THEN r.seats ELSE 0
            IN /\ Class(p) = class
               /\ SeatsLeft(slots, r.slot_id) = avail - taken
               /\ Cardinality(bookings \ EarlierRows)
                     = IF class = "success" THEN 1 ELSE 0

\* The handler of p has run its finally block: its connection is back in
\* the pool (a handler that got no connection has none to give back).
ConnectionReleased(p) == req[p].op \in {"book", "cleanup"} /\ Ended(p)

\* The transaction of p is open: it has pending writes or holds a row lock.
TransactionOpen(p) == tx[p] # NoTx \/ \E s \in DOMAIN lock : lock[s] = p

\* C28: a /api/book or /api/admin/cleanup call gives its connection back on
\* every path (the release is the handler's last step, in finally, so it
\* happens once), and the connection it has given back never carries its
\* transaction still open, the path of a failed rollback included.
C28_ReleasedClosed ==
    \A p \in Procs : ConnectionReleased(p) => ~TransactionOpen(p)

\* The row locks transaction p holds.
LocksOf(p) == {s \in DOMAIN lock : lock[s] = p}

\* Call p waits in its SELECT ... FOR UPDATE for a row that q has locked.
WaitsFor(p, q) ==
    /\ req[p].op = "book" /\ pc[p] = "select"
    /\ SlotExists(req[p].slot_id)
    /\ q # p /\ lock[req[p].slot_id] = q

\* C29: a /api/book transaction holds the lock of at most one slot row; in
\* no set of calls does each wait for a lock held by another of the set; and
\* with locks granted fairly every call that began its transaction completes.
C29_NoDeadlock ==
    /\ [](\A p \in Procs : Cardinality(LocksOf(p)) <= 1)
    /\ [](\A S \in (SUBSET Procs) \ {{}} :
             \E p \in S : \A q \in S : ~WaitsFor(p, q))
    /\ \A p \in Procs : InTransaction(p) ~> Done(p)

\* C29's case: one call holds the row of a slot, a second holds the row of
\* another slot, and the third waits for one of the two.
C29_Witness ==
    \E p, q, r \in Procs :
        /\ LocksOf(p) = {MainSlot} /\ LocksOf(q) = {OtherSlot}
        /\ WaitsFor(r, p)

\* C30: the booking ids that successful book calls returned are pairwise
\* distinct, whichever endpoint or procedure served them and in whatever
\* order their steps ran.
C30_DistinctBookingIds ==
    \A p, q \in Procs :
        (p # q /\ Succeeded(p) /\ Succeeded(q)
              /\ req[p].op \in {"book", "proc", "simple"}
              /\ req[q].op \in {"book", "proc", "simple"}) =>
            res[p].bookingId # res[q].bookingId

\* Call p takes a step of its booking.
BookStep(p) == IsBooking(p)' /\ pc'[p] # pc[p]

\* C31: a booking call on slot S, whatever its outcome, writes no row of
\* slots but that of S, before its commit and at it, and leaves every
\* booking there was as it was; a call that succeeds changes nothing but the
\* available_seats of S and adds one booking, which names S; a call that
\* does not succeed changes no row at all.
C31_Frame ==
    /\ [](\A p \in Procs :
             IsBooking(p) => DOMAIN tx[p].delta \subseteq {req[p].slot_id})
    /\ [][\A p \in Procs :
             BookStep(p) =>
                 /\ \A s \in DOMAIN slots :
                       /\ s # req'[p].slot_id => slots'[s] = slots[s]
                       /\ slots'[s].max_patients = slots[s].max_patients
                 /\ DOMAIN slots' = DOMAIN slots
                 /\ bookings \subseteq bookings'
                 /\ IF Succeeded(p)'
                    THEN /\ Cardinality(bookings' \ bookings) = 1
                         /\ \A b \in bookings' \ bookings :
                               b.slot_id = req'[p].slot_id
                    ELSE slots' = slots /\ bookings' = bookings]_vars

\* C31's case: a booking of the main slot has succeeded and changed its
\* seats, while the table holds a booking of the other slot that was there
\* at start-up and the other slot has the seats it started with.
C31_Witness ==
    \E p \in Procs :
        /\ req[p].op = "book" /\ Succeeded(p) /\ req[p].slot_id = MainSlot
        /\ slots[MainSlot].available_seats # slots0[MainSlot].available_seats
        /\ \E b \in bookings \cap EarlierRows : b.slot_id = OtherSlot
        /\ slots[OtherSlot] = slots0[OtherSlot]

====
